---- MODULE Spec2Model ----
(***************************************************************************)
(* Model of src/src/LotteryDrawPage.jsx: the LotteryDrawPage component,    *)
(* its React state, the roll/reset handlers, the two bound editors and the *)
(* setInterval callback that animates a draw.                              *)
(*                                                                         *)
(* JavaScript numbers are represented in tenths (fixed point, one decimal  *)
(* digit): the number 30 is 300, the number 2.5 is 25.  A handler runs to  *)
(* completion and React commits the state it set before the next event or  *)
(* timer callback is dispatched, so every handler is one atomic action.    *)
(***************************************************************************)
EXTENDS Integers, Sequences, FiniteSets, TLC

VARIABLES
    tableMax,   \* useState(30): upper limit for the table draw
    seatMax,    \* useState(10): upper limit for the seat draw
    table,      \* useState(null): table result
    seat,       \* useState(null): seat result
    rolling,    \* useState(false)
    timers,     \* active setInterval timers: the callback's closure
    nextId,     \* number of setInterval calls so far (last id handed out)
    confetti,   \* number of confetti() calls so far
    event,      \* the handler that ran last, with its argument
    fired,      \* per timer id: how many times its callback has run
    cleared,    \* per timer id: how many times clearInterval(id) was called
    startBound, \* the bound of the drawn kind when roll last started a draw
    resetSeen   \* reset() ran since the current/last draw was started

vars == <<tableMax, seatMax, table, seat, rolling, timers, nextId, confetti,
          event, fired, cleared, startBound, resetSeen>>

\* ---------------------------------------------------------------- bounds
MaxDraws == 2
RandDen == 2

\* ------------------------------------------------------ program constants
FLASH_COUNT == 50
DEFAULT_TABLE_MAX == 30
DEFAULT_SEAT_MAX == 10

\* useState(null): no result yet; every drawn value is at least Num(1)
null == 0 - 1

\* the handler that ran last and what it was given
Event(op, kind, id, input, max) ==
    [op |-> op, kind |-> kind, id |-> id, input |-> input, max |-> max]

\* ---------------------------------------------------------------- numbers
\* n as a JavaScript number (tenths)
Num(n) == n * 10

IsInteger(x) == x % 10 = 0

DigitVal(c) ==
    CASE c = "0" -> 0 [] c = "1" -> 1 [] c = "2" -> 2 [] c = "3" -> 3
      [] c = "4" -> 4 [] c = "5" -> 5 [] c = "6" -> 6 [] c = "7" -> 7
      [] c = "8" -> 8 [] c = "9" -> 9

RECURSIVE ParseDigits(_, _)
ParseDigits(s, acc) ==
    IF s = <<>> THEN acc
    ELSE ParseDigits(Tail(s), acc * 10 + DigitVal(Head(s)))

DotPos(s) ==
    IF \E i \in 1..Len(s) : s[i] = "."
    THEN CHOOSE i \in 1..Len(s) : s[i] = "."
    ELSE 0

\* unary plus applied to e.target.value of a number input: the empty string
\* (which is also what the input reports for text that is not a number) is 0,
\* otherwise the decimal numeral is read, sign included
ToNumber(s) ==
    IF s = <<>> THEN 0
    ELSE LET neg  == Head(s) = "-"
             body == IF neg THEN Tail(s) ELSE s
             dot  == DotPos(body)
             ip   == IF dot = 0 THEN body ELSE SubSeq(body, 1, dot - 1)
             fp   == IF dot = 0 THEN <<>> ELSE SubSeq(body, dot + 1, Len(body))
             mag  == ParseDigits(ip, 0) * 10
                       + (IF fp = <<>> THEN 0 ELSE DigitVal(fp[1]))
         IN  IF neg THEN 0 - mag ELSE mag

MathMax(a, b) == IF a >= b THEN a ELSE b

\* Math.floor(Math.random() * max) + 1, with Math.random() = k / RandDen
Sample(k, max) == Num(((k * max) \div (RandDen * 10)) + 1)

\* the strings a bound editor can report
InputValues ==
    { <<>>, <<"0">>, <<"-", "3">>, <<"2", ".", "5">> }

Kinds == {"table", "seat"}
Ids == 1..(MaxDraws + 1)

\* ------------------------------------------------------------------- Init
Init ==
    /\ tableMax = Num(DEFAULT_TABLE_MAX)
    /\ seatMax = Num(DEFAULT_SEAT_MAX)
    /\ table = null
    /\ seat = null
    /\ rolling = FALSE
    /\ timers = {}
    /\ nextId = 0
    /\ confetti = 0
    /\ event = Event("mount", "", 0, <<>>, 0)
    /\ fired = [i \in Ids |-> 0]
    /\ cleared = [i \in Ids |-> 0]
    /\ startBound = 0
    /\ resetSeen = FALSE

\* ---------------------------------------------------------------- actions
\* tableMax and seatMax are const bindings of the render in which roll was
\* created; the callback made by roll(type) closes over them, so the `max`
\* it computes on every run is fixed when setInterval is called
ClosureMax(type) == IF type = "table" THEN tableMax ELSE seatMax

\* (variant: the callback reads the bounds of the current render)
CallbackMaxLive(t) == IF t.type = "table" THEN tableMax ELSE seatMax

\* const max = type === "table" ? tableMax : seatMax, read through the closure
CallbackMax(t) == t.max

\* (variant: both results are assigned)
AssignBoth(t, value) == table' = value /\ seat' = value

\* (variant: the tick that ends the draw assigns nothing)
AssignUnlessLast(t, value) ==
    IF t.flashes - 1 <= 0
    THEN UNCHANGED <<table, seat>>
    ELSE IF t.type = "table"
         THEN table' = value /\ seat' = seat
         ELSE seat' = value /\ table' = table

\* if (type === "table") setTable(value); else setSeat(value);
Assign(t, value) ==
    IF t.type = "table"
    THEN table' = value /\ seat' = seat
    ELSE seat' = value /\ table' = table

\* (variant: one tick too many)
DoneLate(flashes) == flashes < 0

\* if (flashes <= 0), evaluated after flashes -= 1
Done(flashes) == flashes <= 0

\* (variant: no re-entry guard)
rollNoGuard(type) ==
    /\ event' = Event("roll", type, 0, <<>>, 0)
    /\ nextId < MaxDraws
    /\ rolling' = TRUE
    /\ nextId' = nextId + 1
    /\ timers' = timers \cup
         {[id |-> nextId + 1, type |-> type,
           max |-> ClosureMax(type), flashes |-> FLASH_COUNT]}
    /\ startBound' = IF type = "table" THEN tableMax ELSE seatMax
    /\ resetSeen' = FALSE
    /\ UNCHANGED <<tableMax, seatMax, table, seat, confetti, fired, cleared>>

\* roll(type): lines 46-50 and the setInterval call
roll(type) ==
    /\ event' = Event("roll", type, 0, <<>>, 0)
    /\ IF rolling
       THEN UNCHANGED <<tableMax, seatMax, table, seat, rolling, timers,
                        nextId, confetti, fired, cleared, startBound,
                        resetSeen>>
       ELSE /\ nextId < MaxDraws
            /\ rolling' = TRUE
            /\ nextId' = nextId + 1
            /\ timers' = timers \cup
                 {[id |-> nextId + 1, type |-> type,
                   max |-> ClosureMax(type), flashes |-> FLASH_COUNT]}
            /\ startBound' = IF type = "table" THEN tableMax ELSE seatMax
            /\ resetSeen' = FALSE
            /\ UNCHANGED <<tableMax, seatMax, table, seat, confetti, fired,
                           cleared>>

\* the setInterval callback of timer t: lines 51-66
intervalCallback(t) ==
    /\ t \in timers
    /\ \E k \in 0..(RandDen - 1) :
         LET max == CallbackMax(t)
             value == Sample(k, max)
         IN  /\ event' = Event("tick", t.type, t.id, <<>>, max)
             /\ Assign(t, value)
    /\ fired' = [fired EXCEPT ![t.id] = @ + 1]
    /\ IF Done(t.flashes - 1)
       THEN /\ timers' = {s \in timers : s.id # t.id}
            /\ cleared' = [cleared EXCEPT ![t.id] = @ + 1]
            /\ rolling' = FALSE
            /\ confetti' = confetti + 1
       ELSE /\ timers' = (timers \ {t}) \cup {[t EXCEPT !.flashes = @ - 1]}
            /\ UNCHANGED <<cleared, rolling, confetti>>
    /\ UNCHANGED <<tableMax, seatMax, nextId, startBound, resetSeen>>

\* (variant: reset also stops the running draw)
resetCancels ==
    /\ table' = null
    /\ seat' = null
    /\ event' = Event("reset", "", 0, <<>>, 0)
    /\ resetSeen' = (resetSeen \/ rolling)
    /\ rolling' = FALSE
    /\ timers' = {}
    /\ UNCHANGED <<tableMax, seatMax, nextId, confetti, fired, cleared,
                   startBound>>

\* (variant: reset forgets the seat result)
resetTableOnly ==
    /\ table' = null
    /\ seat' = seat
    /\ event' = Event("reset", "", 0, <<>>, 0)
    /\ resetSeen' = (resetSeen \/ rolling)
    /\ UNCHANGED <<tableMax, seatMax, rolling, timers, nextId, confetti,
                   fired, cleared, startBound>>

\* reset(): lines 69-72
reset ==
    /\ table' = null
    /\ seat' = null
    /\ event' = Event("reset", "", 0, <<>>, 0)
    /\ resetSeen' = (resetSeen \/ rolling)
    /\ UNCHANGED <<tableMax, seatMax, rolling, timers, nextId, confetti,
                   fired, cleared, startBound>>

\* onChange of the table bound editor: line 86
setTableMaxChange(v) ==
    /\ tableMax' = MathMax(Num(1), ToNumber(v))
    /\ event' = Event("setTableMax", "", 0, v, 0)
    /\ UNCHANGED <<seatMax, table, seat, rolling, timers, nextId, confetti,
                   fired, cleared, startBound, resetSeen>>

\* onChange of the seat bound editor: line 97
setSeatMaxChange(v) ==
    /\ seatMax' = MathMax(Num(1), ToNumber(v))
    /\ event' = Event("setSeatMax", "", 0, v, 0)
    /\ UNCHANGED <<tableMax, table, seat, rolling, timers, nextId, confetti,
                   fired, cleared, startBound, resetSeen>>

Roll == \E type \in Kinds : roll(type)
Tick == \E t \in timers : intervalCallback(t)
EditTable == \E v \in InputValues : setTableMaxChange(v)
EditSeat == \E v \in InputValues : setSeatMaxChange(v)

Next == Roll \/ Tick \/ reset \/ EditTable \/ EditSeat

Spec == Init /\ [][Next]_vars

\* timer callbacks that are due are eventually run by the event loop
FairSpec == Spec /\ WF_vars(Tick)

TypeOK ==
    /\ rolling \in BOOLEAN
    /\ nextId \in 0..MaxDraws
    /\ \A t \in timers : t.flashes \in 1..FLASH_COUNT

\* ------------------------------------------------------------ shorthands
Active(i) == \E t \in timers : t.id = i

Result(kind) == IF kind = "table" THEN table ELSE seat

ActiveNext(i) == \E t \in timers' : t.id = i

ResultNext(kind) == IF kind = "table" THEN table' ELSE seat'

Bound(kind) == IF kind = "table" THEN tableMax ELSE seatMax

Completed == {i \in Ids : cleared[i] >= 1}

\* ================================================================ claims

\* C1: in every reachable state at most one repeating timer is active, so a
\* table draw and a seat draw are never in progress at the same time.
C1_AtMostOneDraw ==
    /\ Cardinality(timers) <= 1
    /\ ~ \E t1, t2 \in timers : t1.type = "table" /\ t2.type = "seat"

\* a seat draw was requested while a table draw was already ticking
C1_Witness ==
    \E t \in timers :
        /\ t.type = "table"
        /\ t.flashes < FLASH_COUNT
        /\ event.op = "roll"
        /\ event.kind = "seat"

\* C2 (as claimed): every value a tick assigns to table (resp. seat) lies in
\* [1, tableMax] (resp. [1, seatMax]) for the bound configured at the instant
\* the value is set, also when the bound was edited while rolling.
C2_InRangeOfCurrentBound ==
    event.op = "tick" =>
        /\ Result(event.kind) >= Num(1)
        /\ Result(event.kind) <= Bound(event.kind)

\* C3: a draw invoked while rolling is a no-op: results, rolling, bounds, the
\* running timer and its remaining ticks are unchanged, no timer is started,
\* and a timer is only ever started by a draw invoked while not rolling.
C3_ReentrantDrawNoOp ==
    /\ [][(rolling /\ event'.op = "roll") =>
            UNCHANGED <<table, seat, rolling, tableMax, seatMax, timers,
                        nextId, confetti, fired, cleared>>]_vars
    /\ [][(\/ nextId' # nextId
            \/ \E t \in timers' : ~Active(t.id)
            \/ (~rolling /\ rolling'))
            => (event'.op = "roll" /\ ~rolling /\ Cardinality(timers') = 1)]_vars

\* draw("table") called again while the table draw is in progress
C3_Witness ==
    \E t \in timers :
        /\ rolling
        /\ t.type = "table"
        /\ t.flashes < FLASH_COUNT
        /\ t.flashes > 1
        /\ event.op = "roll"
        /\ event.kind = "table"

\* C4: rolling stays true through ticks 1..49 of a draw; exactly the 50th
\* tick stops the timer, sets rolling false and fires the effect; the effect
\* fires once per completed draw and on no other step, whatever resets and
\* bound edits are interleaved.
C4_FiftyTicksThenEffect ==
    /\ [][event'.op = "tick" =>
            /\ fired'[event'.id] = fired[event'.id] + 1
            /\ fired'[event'.id] <= FLASH_COUNT
            /\ (fired'[event'.id] < FLASH_COUNT =>
                   /\ rolling'
                   /\ ActiveNext(event'.id)
                   /\ cleared'[event'.id] = 0
                   /\ confetti' = confetti)
            /\ (fired'[event'.id] = FLASH_COUNT =>
                   /\ ~rolling'
                   /\ ~ActiveNext(event'.id)
                   /\ cleared'[event'.id] = 1
                   /\ confetti' = confetti + 1)]_vars
    /\ [][event'.op # "tick" =>
            /\ confetti' = confetti
            /\ (rolling => rolling')]_vars
    /\ [](confetti = Cardinality(Completed))

\* the second draw completes on its 50th tick after a reset during the draw
C4_Witness ==
    /\ event.op = "tick"
    /\ event.id = 2
    /\ fired[2] = FLASH_COUNT
    /\ ~rolling
    /\ resetSeen
    /\ confetti = 2

\* C5: reset(), in any state, unsets both results and leaves rolling, both
\* bounds and any running timer (with its remaining ticks) unchanged.
C5_ResetFrame ==
    [][event'.op = "reset" =>
          /\ table' = null
          /\ seat' = null
          /\ UNCHANGED <<rolling, tableMax, seatMax, timers, nextId,
                         confetti>>]_vars

\* reset during the second draw, after the first draw left a result
C5_Witness ==
    /\ event.op = "reset"
    /\ rolling
    /\ confetti = 1
    /\ table = null
    /\ seat = null
    /\ \E t \in timers : t.flashes < FLASH_COUNT

\* C6: a tick of a draw of one kind leaves the other kind's result alone;
\* and a first draw("table") started with tableMax = 30 completes with table
\* in 1..30, seat unset and exactly one effect fired.
C6_OtherResultUntouched ==
    /\ [][event'.op = "tick" =>
            /\ (event'.kind = "table" => seat' = seat)
            /\ (event'.kind = "seat" => table' = table)]_vars
    /\ []((/\ event.op = "tick"
           /\ event.id = 1
           /\ event.kind = "table"
           /\ ~rolling
           /\ startBound = Num(DEFAULT_TABLE_MAX))
          => /\ table \in {Num(i) : i \in 1..DEFAULT_TABLE_MAX}
             /\ seat = null
             /\ confetti = 1)

\* the first draw, a table draw with the default bound, has just completed
C6_Witness ==
    /\ event.op = "tick"
    /\ event.id = 1
    /\ event.kind = "table"
    /\ fired[1] = FLASH_COUNT
    /\ ~rolling
    /\ startBound = Num(DEFAULT_TABLE_MAX)
    /\ table # null
    /\ seat = null
    /\ confetti = 1

\* C7 (as claimed): after any sequence of bound edits both bounds are
\* integers >= 1; an edit sets its bound to max(1, v), so 0, negative and
\* empty input give 1; the other bound, the results and rolling are unchanged.
C7_BoundsIntegerAtLeastOne ==
    /\ IsInteger(tableMax) /\ tableMax >= Num(1)
    /\ IsInteger(seatMax) /\ seatMax >= Num(1)
    /\ (event.op = "setTableMax" /\ ToNumber(event.input) <= 0
            => tableMax = Num(1))
    /\ (event.op = "setSeatMax" /\ ToNumber(event.input) <= 0
            => seatMax = Num(1))

\* C8: once rolling is true it eventually becomes false again (timer
\* callbacks scheduled fairly); no reset, bound edit or re-entrant draw
\* removes or shortens the running timer; clearInterval is called once per
\* timer, at its 50th tick, and the callback never runs afterwards.
C8_RunsToCompletion ==
    /\ rolling ~> ~rolling
    /\ [][event'.op # "tick" => (\A t \in timers : t \in timers')]_vars
    /\ [](\A i \in Ids :
            /\ cleared[i] <= 1
            /\ (cleared[i] = 1 => fired[i] = FLASH_COUNT /\ ~Active(i))
            /\ (cleared[i] = 0 /\ fired[i] > 0 => Active(i) /\ rolling))
    /\ [][\A i \in Ids : cleared[i] = 1 => fired'[i] = fired[i]]_vars

\* two draws ran to completion although reset and a bound edit intervened
C8_Witness ==
    /\ cleared[1] = 1
    /\ cleared[2] = 1
    /\ fired[2] = FLASH_COUNT
    /\ resetSeen
    /\ tableMax # Num(DEFAULT_TABLE_MAX)
    /\ ~rolling
    /\ timers = {}

\* C9: every tick of a draw samples with the bound its kind had when the
\* draw was started; editing a bound while rolling leaves the running timer
\* as it is, and a draw started later uses the bound of that moment.
C9_BoundFixedAtStart ==
    /\ [](event.op = "tick" =>
            /\ event.max = startBound
            /\ \E k \in 0..(RandDen - 1) :
                 Result(event.kind) = Sample(k, startBound))
    /\ [][event'.op \in {"setTableMax", "setSeatMax"} => timers' = timers]_vars
    /\ [][\A t \in timers' : ~Active(t.id) => t.max = Bound(t.type)]_vars

\* the table bound was lowered during the draw and a later tick still drew
\* a value above the new bound
C9_Witness ==
    /\ event.op = "tick"
    /\ event.kind = "table"
    /\ event.max # tableMax
    /\ table > tableMax
    /\ fired[event.id] > 1

\* C10: on the step where rolling goes from true to false the result of the
\* drawn kind is set, also when reset() ran during the draw; every tick
\* assigns the drawn kind's result again.
C10_ResultSetAtCompletion ==
    /\ [][(rolling /\ ~rolling') => ResultNext(event'.kind) # null]_vars
    /\ [][event'.op = "tick" => ResultNext(event'.kind) # null]_vars

\* a seat draw completes with a result after reset() ran while it rolled
C10_Witness ==
    /\ event.op = "tick"
    /\ event.kind = "seat"
    /\ ~rolling
    /\ fired[event.id] = FLASH_COUNT
    /\ resetSeen
    /\ seat # null
    /\ table = null
====
